---- MODULE Spec2Model ----
(***************************************************************************)
(* A model of the book-catalogue service: the scraper of                   *)
(* src/scraping/Scraping.py and the HTTP API of src/app.py (token guard,   *)
(* register, login, scrape trigger and the four read routes) over the      *)
(* users and books tables.                                                 *)
(*                                                                         *)
(* Conventions.  Python's None for an optional value is the empty          *)
(* sequence << >> and a present value v is << v >>.  A URL is a record     *)
(* [cat, dir, file]: cat says whether its path holds "/category/books/",   *)
(* dir is the last directory of the path (the slug), file numbers the      *)
(* document in it (1 is index.html, p is page-p.html).                     *)
(***************************************************************************)
EXTENDS Integers, Sequences, FiniteSets, TLC

VARIABLES
    users,      \* the committed users table, rows in insertion order
    created,    \* the (username, password) pairs register has answered 201 for
    books,      \* the committed books table, rows in insertion order
    site,       \* the source bookstore site as it is now
    now,        \* the clock, in seconds
    ticks,      \* how often the clock has advanced
    issued,     \* the tokens login has handed out, each with its issue time
    pc,         \* per worker thread: where its request handler stands
    req,        \* per worker thread: the request it serves
    loc,        \* per worker thread: the handler's local variables
    resp,       \* per worker thread: the response it produced
    uow,        \* per worker thread: its unit of work (SessionLocal())
    lastRun,    \* the last scrape-trigger call whose response a client received
    cpc,        \* crawl_category: position in the while loop
    url,        \* crawl_category: the url variable
    name,       \* crawl_category: the name argument
    all_rows,   \* crawl_category: the all_rows accumulator
    fetched     \* the pages get_soup has fetched for crawl_category, in order

apiVars == <<users, created, books, now, ticks, issued, pc, req, loc, resp, uow, lastRun>>
crawlVars == <<cpc, url, name, all_rows, fetched>>
vars == <<users, created, books, site, now, ticks, issued, pc, req, loc, resp, uow, lastRun,
          cpc, url, name, all_rows, fetched>>

----------------------------------------------------------------------------
(* Bounds of the model *)

MaxPages == 3
MaxTicks == 2
MaxTokens == 1

----------------------------------------------------------------------------
(* Optional values and small sequence helpers *)

None == << >>
Some(v) == << v >>

RECURSIVE Flatten(_)
Flatten(ss) == IF ss = << >> THEN << >> ELSE Head(ss) \o Flatten(Tail(ss))

Range(s) == { s[i] : i \in 1..Len(s) }

IsPrefix(s, t) == Len(s) <= Len(t) /\ SubSeq(t, 1, Len(s)) = s

----------------------------------------------------------------------------
(* The scraper: src/scraping/Scraping.py *)

NoUrl == [cat |-> FALSE, dir |-> "", file |-> 0]

\* urljoin(base, href): a href without a directory replaces the last path
\* segment of the base; one with a directory leaves the base's directory.
urljoin(base, href) ==
    IF href.dir = ""
    THEN [cat |-> base.cat, dir |-> base.dir, file |-> href.file]
    ELSE [cat |-> FALSE, dir |-> href.dir, file |-> href.file]

\* str.strip() on the title attributes of the vocabulary.
Strip(s) == CASE s = " Ab " -> "Ab"
              [] s = "  "   -> ""
              [] OTHER      -> s

\* str.lower() on the breadcrumb texts of the vocabulary.
Lower(s) == CASE s = "Home"         -> "home"
              [] s = "Books"        -> "books"
              [] s = "All products" -> "all products"
              [] s = "Travel"       -> "travel"
              [] s = "Fiction"      -> "fiction"
              [] OTHER              -> s

\* slug.rsplit("_", 1)[0].replace("-", " ").strip() and then .title(), on the
\* directory names of the vocabulary; "" when the name is empty.
SlugTitle(dir) == CASE dir = "travel_2"  -> "Travel"
                    [] dir = "fiction_10" -> "Fiction"
                    [] dir = "sequential-art_5" -> "Sequential Art"
                    [] OTHER -> ""

RATING_MAP == [c \in {"One", "Two", "Three", "Four", "Five"} |->
                 CASE c = "One" -> 1 [] c = "Two" -> 2 [] c = "Three" -> 3
                   [] c = "Four" -> 4 [] OTHER -> 5]

\* the loop of parse_book_card over the class tokens: the first one in
\* RATING_MAP decides, none gives None
RECURSIVE FirstRating(_)
FirstRating(classes) ==
    IF classes = << >> THEN None
    ELSE IF Head(classes) \in DOMAIN RATING_MAP
         THEN Some(RATING_MAP[Head(classes)])
         ELSE FirstRating(Tail(classes))

parse_book_card(card, base_url, category) ==
    [title        |-> Strip(card.title),
     price        |-> card.price,
     availability |-> card.avail,
     rating       |-> FirstRating(card.classes),
     category     |-> category,
     product_url  |-> urljoin(base_url, card.href),
     image_url    |-> IF card.img = None THEN None
                      ELSE Some(urljoin(base_url, card.img[1]))]

Sentinels == {"home", "books", "all products"}

\* Returns Some(name) or None.
extract_category_from_listing(page, listing_url) ==
    IF page.crumb # None /\ page.crumb[1] # "" /\ Lower(page.crumb[1]) \notin Sentinels
    THEN Some(page.crumb[1])
    ELSE IF listing_url.cat /\ SlugTitle(listing_url.dir) # ""
         THEN Some(SlugTitle(listing_url.dir))
         ELSE None

\* Python's "a or b" on an optional string: a when it is a non-empty string.
Truthy(opt) == opt # None /\ opt[1] # ""
Or(a, b) == IF Truthy(a) THEN a ELSE b

\* get_soup(url): the page the site serves at url.
get_soup(s, u) == s.pages[u]

\* Returns rows, next_url, category; the rows' category field holds the
\* optional value itself, as the dicts of the code hold None or a string.
parse_category_page(s, u, known_category) ==
    LET soup == get_soup(s, u)
        category == Or(known_category, extract_category_from_listing(soup, u))
    IN [rows     |-> [i \in 1..Len(soup.cards) |->
                         parse_book_card(soup.cards[i], u, category)],
        next_url |-> IF soup.next = None THEN NoUrl
                     ELSE urljoin(u, soup.next[1]),
        category |-> category]

\* the pass that loses the next url: the crawl stops after its first page
CrawlPageNoNext(s, nm, u) ==
    LET p == parse_category_page(s, u, Some(nm))
        cat_name == Or(p.category, Some(nm))
    IN [rows |-> [i \in 1..Len(p.rows) |-> [p.rows[i] EXCEPT !.category = cat_name[1]]],
        next_url |-> NoUrl]

\* One pass of the while loop of crawl_category on the page at u: the rows
\* with their category overwritten, and the next url.
CrawlPage(s, nm, u) ==
    LET p == parse_category_page(s, u, Some(nm))
        cat_name == Or(p.category, Some(nm))
    IN [rows |-> [i \in 1..Len(p.rows) |-> [p.rows[i] EXCEPT !.category = cat_name[1]]],
        next_url |-> p.next_url]

\* crawl_category as a function: the loop run to its end.  fuel bounds the
\* recursion by the number of pages of the site.
RECURSIVE CrawlFrom(_, _, _, _)
CrawlFrom(s, nm, u, fuel) ==
    IF u = NoUrl \/ fuel = 0 THEN << >>
    ELSE LET step == CrawlPage(s, nm, u)
         IN step.rows \o CrawlFrom(s, nm, step.next_url, fuel - 1)

crawl_category(s, nm, u) == CrawlFrom(s, nm, u, Cardinality(DOMAIN s.pages))

\* get_all_categories: the sidebar's (name, url) pairs in order.
get_all_categories(s) == s.cats

crawl_all_books(s) ==
    Flatten([i \in 1..Len(get_all_categories(s)) |->
               crawl_category(s, get_all_categories(s)[i].name,
                              get_all_categories(s)[i].url)])

\* pd.DataFrame(books): one row per entry, in order.
save_to_dataframe(s) == crawl_all_books(s)

----------------------------------------------------------------------------
(* The source site: pages, and the sites the model crawls *)

U(dir, file) == [cat |-> TRUE, dir |-> dir, file |-> file]

\* A site of categories cs, each [name, dir, crumb, pages]: the pages of a
\* category are chained by next links, the last page has none.
MkSite(cs) ==
    [cats  |-> [i \in 1..Len(cs) |-> [name |-> cs[i].name, url |-> U(cs[i].dir, 1)]],
     pages |-> [u \in UNION { { U(cs[i].dir, p) : p \in 1..Len(cs[i].pages) } :
                              i \in 1..Len(cs) } |->
                  LET c == cs[CHOOSE i \in 1..Len(cs) : cs[i].dir = u.dir]
                  IN [cards |-> c.pages[u.file],
                      next  |-> IF u.file < Len(c.pages)
                                THEN Some([dir |-> "", file |-> u.file + 1])
                                ELSE None,
                      crumb |-> c.crumb]]]

Card(title, no) ==
    [title   |-> title,
     href    |-> [dir |-> "book", file |-> no],
     price   |-> Some("GBP51.77"),
     avail   |-> Some("In stock"),
     classes |-> <<"star-rating", "Three">>,
     img     |-> Some([dir |-> "media", file |-> no])]

CardA == Card(" Ab ", 1)
CardB == Card("Cd", 2)
\* another book that carries the title of CardA
CardA2 == [Card("Ab", 3) EXCEPT !.classes = <<"star-rating">>, !.img = None]

Travel(pages) == [name |-> "Travel", dir |-> "travel_2", crumb |-> Some("Travel"),
                  pages |-> pages]
Fiction(pages) == [name |-> "Fiction", dir |-> "fiction_10", crumb |-> Some("Fiction"),
                   pages |-> pages]

SiteEmpty  == MkSite(<< >>)
SiteOne    == MkSite(<< Travel(<< <<CardA>> >>) >>)
SiteTwo    == MkSite(<< Travel(<< <<CardA>>, <<CardB>> >>) >>)
SiteDup    == MkSite(<< Travel(<< <<CardA>> >>), Fiction(<< <<CardA2>> >>) >>)

ApiSites == {SiteEmpty, SiteOne, SiteTwo, SiteDup}

\* The listing chains crawl_category is run on: up to MaxPages pages, each
\* with 0, 1 or 20 cards, under each breadcrumb and sidebar name.
CardCounts == {0, 1, 20}
Crumbs == {None, Some("Travel"), Some("Fiction"), Some("Books")}
SidebarNames == {"Travel", ""}

ChainCards(p, n) == [k \in 1..n |-> Card(IF k = 1 THEN " Ab " ELSE "Cd", 100 * p + k)]

ChainSites ==
    { MkSite(<< [name |-> nm, dir |-> "travel_2", crumb |-> cr,
                 pages |-> [p \in 1..n |-> ChainCards(p, counts[p])]] >>) :
        <<n, counts, cr, nm>> \in
          UNION { {n} \X [1..n -> CardCounts] \X Crumbs \X SidebarNames : n \in 1..MaxPages } }

----------------------------------------------------------------------------
(* crawl_category, step by step *)

CrawlOff == /\ cpc = "off" /\ url = NoUrl /\ name = "" /\ all_rows = << >>
            /\ fetched = << >>

\* one pass of "while url:" (lines 198-205)
CrawlLoop ==
    /\ cpc = "loop"
    /\ url # NoUrl
    /\ LET step == CrawlPage(site, name, url)
       IN /\ all_rows' = all_rows \o step.rows
          /\ url' = step.next_url
    /\ fetched' = Append(fetched, url)
    /\ UNCHANGED <<cpc, name, site>>
    /\ UNCHANGED apiVars

\* the loop ends and all_rows is returned (line 206)
CrawlReturn ==
    /\ cpc = "loop"
    /\ url = NoUrl
    /\ cpc' = "returned"
    /\ UNCHANGED <<url, name, all_rows, fetched, site>>
    /\ UNCHANGED apiVars

----------------------------------------------------------------------------
(* Authentication: src/app.py lines 18-20 and 64-86 *)

JWT_SECRET == "MEUSEGREDOAQUI"
JWT_EXP_DELTA_SECONDS == 3600

\* The HMAC of a payload under a key, as the pair it is a function of.
Sign(username, exp, key) == <<key, username, exp>>

NoTok == [username |-> "", exp |-> 0, sig |-> << >>]

\* jwt.encode(payload, key): the payload with its signature
jwt_encode(username, exp, key) ==
    [username |-> username, exp |-> exp, sig |-> Sign(username, exp, key)]

\* create_token with the lifetime left out of the expiry
create_token_no_delta(username, t) == jwt_encode(username, t, JWT_SECRET)

\* create_token(username) called at time t
create_token(username, t) ==
    jwt_encode(username, t + JWT_EXP_DELTA_SECONDS, JWT_SECRET)

\* A header value is a sequence of atoms: a space, or a maximal run of
\* non-space characters, which is a word or an encoded token.
SP == [s |-> " ", tok |-> NoTok]
W(word) == [s |-> word, tok |-> NoTok]
J(tok) == [s |-> "jwt", tok |-> tok]

\* request.headers.get("Authorization"): absent, or the value's atoms
Absent == [present |-> FALSE, parts |-> << >>]
Hdr(parts) == [present |-> TRUE, parts |-> parts]

\* str.split(" "): the runs between the spaces, empty runs included
RECURSIVE SplitSp(_, _)
SplitSp(parts, cur) ==
    IF parts = << >> THEN << cur >>
    ELSE IF Head(parts) = SP
         THEN << cur >> \o SplitSp(Tail(parts), << >>)
         ELSE SplitSp(Tail(parts), Append(cur, Head(parts)))

split(parts) == SplitSp(parts, << >>)

\* auth_header.startswith("Bearer ")
StartsWithBearer(parts) ==
    Len(parts) >= 2 /\ parts[1] = W("Bearer") /\ parts[2] = SP

\* jwt.decode(token, JWT_SECRET, algorithms=[HS256]) at time t: the structure
\* and the signature are verified first, the exp claim after them
\* (expired when exp <= now).
jwt_decode(token, key, t) ==
    IF Len(token) # 1 \/ token[1].s # "jwt" THEN "InvalidTokenError"
    ELSE IF token[1].tok.sig # Sign(token[1].tok.username, token[1].tok.exp, key)
         THEN "InvalidTokenError"
         ELSE IF token[1].tok.exp <= t THEN "ExpiredSignatureError"
              ELSE "ok"

\* token_required with the ExpiredSignatureError of an expired token lost:
\* the expiry is not enforced
token_required_no_expiry(h, t) ==
    IF ~h.present \/ h.parts = << >> \/ ~StartsWithBearer(h.parts)
    THEN "Token ausente"
    ELSE IF jwt_decode(split(h.parts)[2], JWT_SECRET, t) = "InvalidTokenError"
         THEN "Token invalido"
         ELSE "ok"

\* The guard of token_required (lines 75-85): "ok" when the wrapped handler
\* is called, else the error text of the 401 response.  "Token invalido"
\* stands for the code's accented text.
token_required(h, t) ==
    IF ~h.present \/ h.parts = << >> \/ ~StartsWithBearer(h.parts)
    THEN "Token ausente"
    ELSE LET token == split(h.parts)[2]
             r == jwt_decode(token, JWT_SECRET, t)
         IN CASE r = "ExpiredSignatureError" -> "Token expirado"
              [] r = "InvalidTokenError" -> "Token invalido"
              [] OTHER -> "ok"

\* werkzeug's generate_password_hash with a random salt, and
\* check_password_hash: the stored text names the salt, the digest is a
\* function of salt and password.
Digest(salt, password) == <<"digest", salt, password>>
generate_password_hash(password, salt) ==
    [salt |-> salt, digest |-> Digest(salt, password)]
\* a check that compares nothing
check_password_hash_any(pwhash, password) == pwhash.salt = pwhash.salt
check_password_hash(pwhash, password) ==
    pwhash.digest = Digest(pwhash.salt, password)

----------------------------------------------------------------------------
(* The requests clients send *)

\* The tokens a client can put in a header at time t: those login issued,
\* those with the expiry pushed back under the old signature, and tokens
\* signed with another key, not yet expired and expired.
TokenChoices(t) ==
    { i.tok : i \in issued }
    \cup { [i.tok EXCEPT !.exp = @ + JWT_EXP_DELTA_SECONDS] : i \in issued }
    \cup { jwt_encode("u1", t + 1, "WRONG"), jwt_encode("u1", t, "WRONG") }

AllHeaders(t) ==
    { Absent, Hdr(<< >>), Hdr(<<W("Bearer")>>), Hdr(<<W("Bearer"), SP>>),
      Hdr(<<W("Basic"), SP, W("abc")>>), Hdr(<<W("Bearer"), SP, W("abc")>>) }
    \cup { Hdr(<<W("Bearer"), SP, J(k)>>) : k \in TokenChoices(t) }
    \cup { Hdr(<<W("Bearer"), SP, SP, J(k.tok)>>) : k \in issued }
    \cup { Hdr(<<W("bearer"), SP, J(k.tok)>>) : k \in issued }
    \cup { Hdr(<<J(k.tok)>>) : k \in issued }

\* The headers of well-behaved clients: none, or a token login issued.
ClientHeaders(t) ==
    { Absent } \cup { Hdr(<<W("Bearer"), SP, J(k.tok)>>) : k \in issued }

----------------------------------------------------------------------------
(* Persistence: the users and books tables and a session's operations *)

\* db.query(User).filter(User.username == username).first()
QueryUser(tbl, username) ==
    IF \E i \in 1..Len(tbl) : tbl[i].username = username
    THEN Some(tbl[CHOOSE i \in 1..Len(tbl) :
                    /\ tbl[i].username = username
                    /\ \A j \in 1..(i - 1) : tbl[j].username # username])
    ELSE None

\* the insert with the UNIQUE constraint on users.username left out
InsertUserNoConstraint(tbl, username, pwhash) ==
    [ok |-> TRUE,
     table |-> Append(tbl, [id |-> Len(tbl) + 1, username |-> username,
                            password |-> pwhash])]

\* db.add(new_user); db.commit() under the UNIQUE constraint on
\* users.username (line 38): the row is inserted with the next id, or the
\* commit raises IntegrityError and inserts nothing.
InsertUser(tbl, username, pwhash) ==
    IF \E i \in 1..Len(tbl) : tbl[i].username = username
    THEN [ok |-> FALSE, table |-> tbl]
    ELSE [ok |-> TRUE,
          table |-> Append(tbl, [id |-> Len(tbl) + 1, username |-> username,
                                 password |-> pwhash])]

\* Books(title=row["title"], ...) of lines 141-148: the price is not kept
NewBook(row) ==
    [title        |-> row.title,
     category     |-> row.category,
     availability |-> row.availability,
     rating       |-> row.rating,
     product_url  |-> row.product_url,
     image_url    |-> row.image_url]

\* the lookup without the autoflush and against nothing but the session's own
\* rows: the committed table is not consulted
TitleExistsStagedOnly(tbl, staged, title) ==
    \E i \in 1..Len(staged) : staged[i].title = title

\* db_session.query(Books).filter(Books.title == title).first() is not None:
\* the session autoflushes, so the query sees the committed rows and the
\* rows this session has added.
TitleExists(tbl, staged, title) ==
    \/ \E i \in 1..Len(tbl) : tbl[i].title = title
    \/ \E i \in 1..Len(staged) : staged[i].title = title

\* the commit under a UNIQUE constraint on books.title: it raises when a
\* staged title is in the table
CommitBooksUniqueTitle(tbl, staged) ==
    IF \E i \in 1..Len(tbl), k \in 1..Len(staged) : tbl[i].title = staged[k].title
    THEN [ok |-> FALSE, table |-> tbl]
    ELSE [ok |-> TRUE,
          table |-> tbl \o [k \in 1..Len(staged) |->
                      [id           |-> Len(tbl) + k,
                       title        |-> staged[k].title,
                       category     |-> staged[k].category,
                       availability |-> staged[k].availability,
                       rating       |-> staged[k].rating,
                       product_url  |-> staged[k].product_url,
                       image_url    |-> staged[k].image_url]]]

\* db_session.commit() of line 152: the staged rows are inserted, each with
\* the next id; the books table has no constraint that could refuse one.
CommitBooks(tbl, staged) ==
    [ok |-> TRUE,
     table |-> tbl \o [k \in 1..Len(staged) |->
                 [id           |-> Len(tbl) + k,
                  title        |-> staged[k].title,
                  category     |-> staged[k].category,
                  availability |-> staged[k].availability,
                  rating       |-> staged[k].rating,
                  product_url  |-> staged[k].product_url,
                  image_url    |-> staged[k].image_url]]]

\* the handler committing what was staged instead of rolling it back
RollbackCommits(tbl, staged) == CommitBooks(tbl, staged).table

\* db_session.rollback() of line 160: what was staged is discarded
Rollback(tbl, staged) == tbl

\* db.query(Books).get(book_id)
GetBook(tbl, book_id) == { i \in 1..Len(tbl) : tbl[i].id = book_id }

\* [c[0] for c in db.query(Books.category).distinct().all() if c[0]]
CategoriesList(tbl) == { tbl[i].category : i \in 1..Len(tbl) } \ {""}

\* The lower-cased characters of the texts of the vocabulary.
LowerChars(s) ==
    CASE s = "Ab"      -> <<"a", "b">>
      [] s = "Cd"      -> <<"c", "d">>
      [] s = "B"       -> <<"b">>
      [] s = "zz"      -> <<"z", "z">>
      [] s = "Travel"  -> <<"t", "r", "a", "v", "e", "l">>
      [] s = "Fiction" -> <<"f", "i", "c", "t", "i", "o", "n">>
      [] s = "TRAV"    -> <<"t", "r", "a", "v">>
      [] OTHER         -> << >>

\* column.ilike("%" + pattern + "%")
ilike(value, pattern) ==
    LET h == LowerChars(value)
        n == LowerChars(pattern)
    IN \E i \in 0..(Len(h) - Len(n)) : SubSeq(h, i + 1, i + Len(n)) = n

\* the query of search_books (lines 450-457)
SearchBooks(tbl, title, category) ==
    { i \in 1..Len(tbl) :
        /\ (title # "" => ilike(tbl[i].title, title))
        /\ (category # "" => ilike(tbl[i].category, category)) }

----------------------------------------------------------------------------
(* The worker threads and their requests *)

Threads == {"t1", "t2"}

Protected == {"trigger", "get_book", "list_categories", "list_books", "search_books"}
ReadRoutes == {"get_book", "list_categories", "list_books", "search_books"}

NoReq == [route |-> "", header |-> Absent, username |-> "", password |-> "",
          book_id |-> 0, title |-> "", category |-> "", at |-> 0]
NoLoc == [df |-> << >>, i |-> 0, staged |-> << >>, inserted |-> 0, before |-> 0,
          after |-> 0, crawled |-> FALSE]
NoResp == [status |-> 0, msg |-> "", by |-> "", token |-> NoTok,
           inserted |-> 0, total |-> 0, n |-> 0]

\* jsonify(...), status: by is "guard" for a response of token_required and
\* "handler" for one of the route's function
Response(status, msg, by) == [NoResp EXCEPT !.status = status, !.msg = msg, !.by = by]

\* What is kept of a scrape-trigger call: the table it scraped, its response
\* and the number of book rows before and after it.
NoRun == [df |-> << >>, status |-> 0, inserted |-> 0, total |-> 0,
          before |-> 0, after |-> 0]

\* The inputs of a specification: the headers clients send ("all": any,
\* "clients": none or an issued token) and the credentials they use.
EnvSeq   == [headers |-> "clients", usernames |-> {"", "u1"},
             passwords |-> {"", "p1"}, salts |-> {"s1"}]
EnvGuard == [headers |-> "all", usernames |-> {"", "u1"},
             passwords |-> {"", "p1"}, salts |-> {"s1"}]
EnvUsers == [headers |-> "clients", usernames |-> {"", "u1", "u2"},
             passwords |-> {"", "p1", "p2"}, salts |-> {"s1", "s2"}]

Headers(E) == IF E.headers = "all" THEN AllHeaders(now) ELSE ClientHeaders(now)

Init ==
    /\ users = << >>
    /\ created = {}
    /\ books = << >>
    /\ site = SiteOne
    /\ now = 0
    /\ ticks = 0
    /\ issued = {}
    /\ pc = [t \in Threads |-> "idle"]
    /\ req = [t \in Threads |-> NoReq]
    /\ loc = [t \in Threads |-> NoLoc]
    /\ resp = [t \in Threads |-> NoResp]
    /\ uow = [t \in Threads |-> "none"]
    /\ lastRun = NoRun
    /\ CrawlOff

\* The response is sent: the thread has produced r and is done.
Reply(t, r) ==
    /\ resp' = [resp EXCEPT ![t] = r]
    /\ pc' = [pc EXCEPT ![t] = "done"]


\* token_required's decorated(): the request rq arrives on idle thread t;
\* the guard answers 401, or calls the wrapped function, whose first
\* statement opens the unit of work (db = SessionLocal()).
Guarded(t, rq, first) ==
    /\ pc[t] = "idle"
    /\ req' = [req EXCEPT ![t] = rq]
    /\ LET g == token_required(rq.header, rq.at)
       IN IF g # "ok"
          THEN /\ Reply(t, Response(401, g, "guard"))
               /\ UNCHANGED <<uow, loc>>
          ELSE /\ pc' = [pc EXCEPT ![t] = first]
               /\ uow' = [uow EXCEPT ![t] = "open"]
               /\ loc' = [loc EXCEPT ![t] = [NoLoc EXCEPT !.before = Len(books)]]
               /\ UNCHANGED resp
    /\ UNCHANGED <<users, created, books, site, now, ticks, issued, lastRun>>
    /\ UNCHANGED crawlVars

----------------------------------------------------------------------------
(* POST /api/v1/scraping/trigger: trigger_scraping, lines 102-165 *)

trigger_scraping(t, E) ==
    \E h \in Headers(E) :
        Guarded(t, [NoReq EXCEPT !.route = "trigger", !.header = h, !.at = now],
                "trig_crawl")

\* a finally clause that leaves the session as it is
CloseLeaks(t) == uow' = uow

\* the finally clause: db_session.close()
Close(t) == uow' = [uow EXCEPT ![t] = "closed"]

\* lines 132-136: the crawl, and the empty result
TrigCrawl(t) ==
    /\ pc[t] = "trig_crawl"
    /\ LET df == save_to_dataframe(site)
       IN IF df = << >>
          THEN LET r == Response(400, "No data scraped", "handler")
               IN /\ Reply(t, r)
                  /\ loc' = [loc EXCEPT ![t].crawled = TRUE, ![t].after = Len(books)]
                  /\ Close(t)
          ELSE /\ pc' = [pc EXCEPT ![t] = "trig_row"]
               /\ loc' = [loc EXCEPT ![t].crawled = TRUE, ![t].df = df, ![t].i = 1]
               /\ UNCHANGED <<resp, uow>>
    /\ UNCHANGED <<users, created, books, site, now, ticks, issued, req, lastRun>>
    /\ UNCHANGED crawlVars

\* lines 138-150: one pass of the loop over the rows
TrigRow(t) ==
    /\ pc[t] = "trig_row"
    /\ LET row == loc[t].df[loc[t].i]
           exists == TitleExists(books, loc[t].staged, row.title)
       IN loc' = [loc EXCEPT
                    ![t].staged = IF exists THEN @ ELSE Append(@, NewBook(row)),
                    ![t].inserted = IF exists THEN @ ELSE @ + 1,
                    ![t].i = @ + 1]
    /\ pc' = [pc EXCEPT ![t] = IF loc[t].i = Len(loc[t].df) THEN "trig_commit"
                                ELSE "trig_row"]
    /\ UNCHANGED <<users, created, books, site, now, ticks, issued, req, resp, uow, lastRun>>
    /\ UNCHANGED crawlVars

\* lines 159-165: an exception leaves the try block (the fetch of a page
\* fails, the database refuses a statement or the commit): rollback, 500
\* with the error text, close.
Failed(t, text) ==
    LET r == Response(500, text, "handler")
    IN /\ books' = Rollback(books, loc[t].staged)
       /\ Reply(t, r)
       /\ loc' = [loc EXCEPT ![t].staged = << >>, ![t].after = Len(books')]
       /\ Close(t)

\* lines 152-157: the commit and the 200 response
TrigCommit(t) ==
    /\ pc[t] = "trig_commit"
    /\ LET c == CommitBooks(books, loc[t].staged)
       IN IF c.ok
          THEN LET r == [Response(200, "Successfully added new books", "handler")
                           EXCEPT !.inserted = loc[t].inserted,
                                  !.total = Len(loc[t].df)]
               IN /\ books' = c.table
                  /\ Reply(t, r)
                  /\ loc' = [loc EXCEPT ![t].after = Len(c.table)]
                  /\ Close(t)
          ELSE Failed(t, "IntegrityError")
    /\ UNCHANGED <<users, created, site, now, ticks, issued, req, lastRun>>
    /\ UNCHANGED crawlVars

\* an exception raised by the crawl, by a lookup or by the commit
TrigFail(t) ==
    /\ pc[t] \in {"trig_crawl", "trig_row", "trig_commit"}
    /\ Failed(t, IF pc[t] = "trig_crawl" THEN "RequestException" ELSE "OperationalError")
    /\ UNCHANGED <<users, created, site, now, ticks, issued, req, lastRun>>
    /\ UNCHANGED crawlVars

----------------------------------------------------------------------------
(* POST /api/v1/auth/register: register_user, lines 216-240 *)

register_user(t, E) ==
    \E u \in E.usernames, p \in E.passwords :
        /\ pc[t] = "idle"
        /\ req' = [req EXCEPT ![t] = [NoReq EXCEPT !.route = "register",
                       !.username = u, !.password = p, !.at = now]]
        /\ IF u = "" \/ p = ""
           THEN /\ Reply(t, Response(400, "Missing username or password", "handler"))
                /\ UNCHANGED uow
           ELSE /\ pc' = [pc EXCEPT ![t] = "reg_lookup"]
                /\ uow' = [uow EXCEPT ![t] = "open"]
                /\ UNCHANGED resp
        /\ UNCHANGED <<users, created, books, site, now, ticks, issued, loc, lastRun>>
        /\ UNCHANGED crawlVars

\* lines 226-228
RegLookup(t) ==
    /\ pc[t] = "reg_lookup"
    /\ IF QueryUser(users, req[t].username) # None
       THEN /\ Reply(t, Response(400, "User already exists", "handler"))
            /\ Close(t)
       ELSE /\ pc' = [pc EXCEPT ![t] = "reg_commit"]
            /\ UNCHANGED <<resp, uow>>
    /\ UNCHANGED <<users, created, books, site, now, ticks, issued, req, loc, lastRun>>
    /\ UNCHANGED crawlVars

\* lines 230-240
RegCommit(t, E) ==
    /\ pc[t] = "reg_commit"
    /\ \E salt \in E.salts :
         LET c == InsertUser(users, req[t].username,
                             generate_password_hash(req[t].password, salt))
         IN /\ users' = c.table
            /\ created' = IF c.ok
                          THEN created \cup { <<req[t].username, req[t].password>> }
                          ELSE created
            /\ Reply(t, IF c.ok THEN Response(201, "User created", "handler")
                        ELSE Response(500, "IntegrityError", "handler"))
    /\ Close(t)
    /\ UNCHANGED <<books, site, now, ticks, issued, req, loc, lastRun>>
    /\ UNCHANGED crawlVars

----------------------------------------------------------------------------
(* POST /api/v1/auth/login: login, lines 274-293 *)

login(t, E) ==
    \E u \in E.usernames, p \in E.passwords :
        /\ pc[t] = "idle"
        /\ req' = [req EXCEPT ![t] = [NoReq EXCEPT !.route = "login",
                       !.username = u, !.password = p, !.at = now]]
        /\ IF u = "" \/ p = ""
           THEN /\ Reply(t, Response(400, "Missing credentials", "handler"))
                /\ UNCHANGED uow
           ELSE /\ pc' = [pc EXCEPT ![t] = "login_check"]
                /\ uow' = [uow EXCEPT ![t] = "open"]
                /\ UNCHANGED resp
        /\ UNCHANGED <<users, created, books, site, now, ticks, issued, loc, lastRun>>
        /\ UNCHANGED crawlVars

\* The client keeps the token k; it holds MaxTokens tokens at most and
\* drops one it held for a new one.
Keep(k) ==
    IF k \in issued \/ Cardinality(issued) < MaxTokens
    THEN issued' = issued \cup {k}
    ELSE \E old \in issued : issued' = (issued \ {old}) \cup {k}

\* lines 283-288
LoginCheck(t) ==
    /\ pc[t] = "login_check"
    /\ LET user == QueryUser(users, req[t].username)
       IN IF user = None \/ ~check_password_hash(user[1].password, req[t].password)
          THEN /\ Reply(t, Response(401, "Invalid credentials", "handler"))
               /\ UNCHANGED issued
          ELSE LET token == create_token(user[1].username, now)
               IN /\ Reply(t, [Response(200, "", "handler") EXCEPT !.token = token])
                  /\ Keep([tok |-> token, at |-> now])
    /\ Close(t)
    /\ UNCHANGED <<users, created, books, site, now, ticks, req, loc, lastRun>>
    /\ UNCHANGED crawlVars

----------------------------------------------------------------------------
(* The read routes: lines 296-473 *)

SearchTitles == {"", "B"}
SearchCategories == {"", "TRAV"}

get_book(t, E) ==
    \E h \in Headers(E), id \in 1..(Len(books) + 1) :
        Guarded(t, [NoReq EXCEPT !.route = "get_book", !.header = h, !.at = now,
                                 !.book_id = id], "read_query")

list_categories(t, E) ==
    \E h \in Headers(E) :
        Guarded(t, [NoReq EXCEPT !.route = "list_categories", !.header = h,
                                 !.at = now], "read_query")

list_books(t, E) ==
    \E h \in Headers(E) :
        Guarded(t, [NoReq EXCEPT !.route = "list_books", !.header = h, !.at = now],
                "read_query")

search_books(t, E) ==
    \E h \in Headers(E), ti \in SearchTitles, ca \in SearchCategories :
        Guarded(t, [NoReq EXCEPT !.route = "search_books", !.header = h,
                                 !.at = now, !.title = ti, !.category = ca],
                "read_query")

\* The body of a read route after db = SessionLocal(): the query, the
\* response (n counts the items of its body) and the finally clause.
ReadResult(rq, tbl) ==
    CASE rq.route = "get_book" ->
           IF GetBook(tbl, rq.book_id) = {}
           THEN Response(404, "Book not found", "handler")
           ELSE [Response(200, "", "handler") EXCEPT !.n = 1]
      [] rq.route = "list_categories" ->
           IF CategoriesList(tbl) = {}
           THEN Response(404, "No categories found", "handler")
           ELSE [Response(200, "", "handler") EXCEPT !.n = Cardinality(CategoriesList(tbl))]
      [] rq.route = "list_books" ->
           IF tbl = << >>
           THEN Response(404, "No books found", "handler")
           ELSE [Response(200, "", "handler") EXCEPT !.n = Len(tbl)]
      [] OTHER ->
           IF SearchBooks(tbl, rq.title, rq.category) = {}
           THEN Response(404, "No books found", "handler")
           ELSE [Response(200, "", "handler") EXCEPT
                   !.n = Cardinality(SearchBooks(tbl, rq.title, rq.category))]

\* a read route that deletes the oldest row it has served
ReadDeletes(rq, tbl) == IF tbl = << >> THEN tbl ELSE Tail(tbl)

\* what a read route writes to the books table: nothing
ReadWrites(rq, tbl) == tbl

ReadQuery(t) ==
    /\ pc[t] = "read_query"
    /\ Reply(t, ReadResult(req[t], books))
    /\ books' = ReadWrites(req[t], books)
    /\ Close(t)
    /\ UNCHANGED <<users, created, site, now, ticks, issued, req, loc, lastRun>>
    /\ UNCHANGED crawlVars

----------------------------------------------------------------------------
(* The environment and the specifications *)

\* The client has its response; the thread is free for the next request.
Return(t) ==
    /\ pc[t] = "done"
    /\ pc' = [pc EXCEPT ![t] = "idle"]
    /\ req' = [req EXCEPT ![t] = NoReq]
    /\ loc' = [loc EXCEPT ![t] = NoLoc]
    /\ resp' = [resp EXCEPT ![t] = NoResp]
    /\ uow' = [uow EXCEPT ![t] = "none"]
    /\ lastRun' = IF req[t].route = "trigger" /\ resp[t].by = "handler"
                  THEN [df |-> loc[t].df, status |-> resp[t].status,
                        inserted |-> resp[t].inserted, total |-> resp[t].total,
                        before |-> loc[t].before, after |-> loc[t].after]
                  ELSE lastRun
    /\ UNCHANGED <<users, created, books, site, now, ticks, issued>>
    /\ UNCHANGED crawlVars

\* Time passes: a second, or a second less than a token's lifetime.
Tick ==
    /\ ticks < MaxTicks
    /\ \E d \in {1, JWT_EXP_DELTA_SECONDS - 1} : now' = now + d
    /\ ticks' = ticks + 1
    /\ UNCHANGED <<users, created, books, site, issued, pc, req, loc, resp, uow, lastRun>>
    /\ UNCHANGED crawlVars

\* The bookstore changes its pages, to another site of S.
SiteChange(S) ==
    /\ site' \in S \ {site}
    /\ UNCHANGED apiVars
    /\ UNCHANGED crawlVars

\* The steps of thread t in the environment E: the accounts, the scrape
\* trigger, the read routes.
StepAuth(t, E) ==
    \/ register_user(t, E)
    \/ RegLookup(t)
    \/ RegCommit(t, E)
    \/ login(t, E)
    \/ LoginCheck(t)

StepTrigger(t, E) ==
    \/ trigger_scraping(t, E)
    \/ TrigCrawl(t)
    \/ TrigRow(t)
    \/ TrigCommit(t)
    \/ TrigFail(t)

StepRead(t, E) ==
    \/ get_book(t, E)
    \/ list_categories(t, E)
    \/ list_books(t, E)
    \/ search_books(t, E)
    \/ ReadQuery(t)

Step(t, E) == StepAuth(t, E) \/ StepTrigger(t, E) \/ StepRead(t, E) \/ Return(t)

\* Every route, one request at a time, while the bookstore changes.
Next ==
    \/ Step("t1", EnvSeq)
    \/ SiteChange(ApiSites)

Spec == Init /\ [][Next]_vars

\* Every route, one request at a time with any Authorization header, while
\* time passes.
NextGuard ==
    \/ Step("t1", EnvGuard)
    \/ Tick

SpecGuard == Init /\ [][NextGuard]_vars

\* Two worker threads serving register and login for several users.
NextUsers == \E t \in Threads : StepAuth(t, EnvUsers) \/ Return(t)

SpecUsers == Init /\ [][NextUsers]_vars

\* Two worker threads serving the scrape trigger to a client that has
\* registered and logged in, while the bookstore changes.
InitConc ==
    /\ users = InsertUser(<< >>, "u1", generate_password_hash("p1", "s1")).table
    /\ created = { <<"u1", "p1">> }
    /\ books = << >>
    /\ site = SiteOne
    /\ now = 0
    /\ ticks = 0
    /\ issued = { [tok |-> create_token("u1", 0), at |-> 0] }
    /\ pc = [t \in Threads |-> "idle"]
    /\ req = [t \in Threads |-> NoReq]
    /\ loc = [t \in Threads |-> NoLoc]
    /\ resp = [t \in Threads |-> NoResp]
    /\ uow = [t \in Threads |-> "none"]
    /\ lastRun = NoRun
    /\ CrawlOff

NextConc ==
    \/ \E t \in Threads : StepTrigger(t, EnvSeq) \/ Return(t)
    \/ SiteChange({SiteOne, SiteTwo})

SpecConc == InitConc /\ [][NextConc]_vars

\* crawl_category(name, url) on the first category of a chain site.
InitCrawl ==
    /\ users = << >>
    /\ created = {}
    /\ books = << >>
    /\ now = 0
    /\ ticks = 0
    /\ issued = {}
    /\ pc = [t \in Threads |-> "idle"]
    /\ req = [t \in Threads |-> NoReq]
    /\ loc = [t \in Threads |-> NoLoc]
    /\ resp = [t \in Threads |-> NoResp]
    /\ uow = [t \in Threads |-> "none"]
    /\ lastRun = NoRun
    /\ site \in ChainSites
    /\ cpc = "loop"
    /\ name = site.cats[1].name
    /\ url = site.cats[1].url
    /\ all_rows = << >>
    /\ fetched = << >>

NextCrawl == CrawlLoop \/ CrawlReturn

SpecCrawl == InitCrawl /\ [][NextCrawl]_vars /\ WF_vars(NextCrawl)

----------------------------------------------------------------------------
(* Storage faults in the account and read routes *)

\* register_user, lines 235-240: the lookup or the commit raises; except
\* rolls back and answers 500 with the error text, finally closes.
RegFail(t) ==
    /\ pc[t] \in {"reg_lookup", "reg_commit"}
    /\ Reply(t, Response(500, "OperationalError", "handler"))
    /\ Close(t)
    /\ UNCHANGED <<users, created, books, site, now, ticks, issued, req, loc, lastRun>>
    /\ UNCHANGED crawlVars

\* login, lines 290-293: the lookup raises; except rolls back and answers
\* 500 with the error text, finally closes.
LoginFail(t) ==
    /\ pc[t] = "login_check"
    /\ Reply(t, Response(500, "OperationalError", "handler"))
    /\ Close(t)
    /\ UNCHANGED <<users, created, books, site, now, ticks, issued, req, loc, lastRun>>
    /\ UNCHANGED crawlVars

\* a read route's query raises: there is no except clause, finally closes
\* (lines 336-337, 374-375, 411-412, 472-473) and the exception leaves the
\* function, which Flask answers with 500.
ReadFail(t) ==
    /\ pc[t] = "read_query"
    /\ Reply(t, Response(500, "Internal Server Error", "handler"))
    /\ Close(t)
    /\ UNCHANGED <<users, created, books, site, now, ticks, issued, req, loc, lastRun>>
    /\ UNCHANGED crawlVars

\* Every route on one worker thread and the read routes on a second one,
\* with the storage failing at any statement.
NextFaults ==
    \/ Step("t1", EnvSeq)
    \/ RegFail("t1")
    \/ LoginFail("t1")
    \/ ReadFail("t1")
    \/ StepRead("t2", EnvSeq)
    \/ ReadFail("t2")
    \/ Return("t2")

SpecFaults == Init /\ [][NextFaults]_vars

----------------------------------------------------------------------------
(* The claims *)

\* The token of a header of the form "Bearer <token>", if it is one.
BearerToken(h) ==
    IF /\ h.present
       /\ Len(h.parts) = 3
       /\ h.parts[1] = W("Bearer")
       /\ h.parts[2] = SP
       /\ h.parts[3].s = "jwt"
    THEN Some(h.parts[3].tok)
    ELSE None

\* The request carries a token signed with the service's secret that has
\* not expired at time t.
Authorized(h, t) ==
    /\ BearerToken(h) # None
    /\ BearerToken(h)[1].sig =
         Sign(BearerToken(h)[1].username, BearerToken(h)[1].exp, JWT_SECRET)
    /\ t < BearerToken(h)[1].exp

\* Thread t has not run the wrapped handler: no unit of work, no crawl.
HandlerNotRun(t) == uow[t] = "none" /\ ~loc[t].crawled /\ loc[t] = NoLoc

\* C1: on every protected route a request whose bearer token is missing,
\* expired or invalid is answered 401 by the guard, in a step that leaves
\* the users and books tables as they are, and the wrapped handler never
\* runs for it: no unit of work is opened and no crawl is started, up to the
\* moment the response is handed over.
C1_GuardShortCircuits ==
    [][\A t \in Threads :
         /\ (/\ pc[t] = "idle"
             /\ pc'[t] # "idle"
             /\ req'[t].route \in Protected
             /\ ~Authorized(req'[t].header, now))
            => /\ pc'[t] = "done"
               /\ resp'[t].status = 401
               /\ resp'[t].by = "guard"
               /\ HandlerNotRun(t)'
               /\ users' = users
               /\ books' = books
         /\ (pc[t] = "done" /\ resp[t].by = "guard")
            => /\ pc'[t] \in {"done", "idle"}
               /\ HandlerNotRun(t)'
               /\ users' = users
               /\ books' = books]_vars

\* C1's case: with a registered user and a book in the tables, a scrape
\* trigger sent with an issued token that has expired was answered 401.
C1_Witness ==
    \E t \in Threads, i \in issued :
        /\ pc[t] = "done"
        /\ req[t].route = "trigger"
        /\ req[t].header = Hdr(<<W("Bearer"), SP, J(i.tok)>>)
        /\ i.tok.exp <= req[t].at
        /\ resp[t].status = 401
        /\ users # << >>
        /\ books # << >>

\* Thread t serves a protected route whose header is "Bearer " and the
\* token i, which login issued.
Presents(t, i) ==
    /\ pc[t] # "idle"
    /\ req[t].route \in Protected
    /\ req[t].header = Hdr(<<W("Bearer"), SP, J(i.tok)>>)

\* C5: a token issued by login at time t carries the expiry t + 3600; the
\* guard lets a request with it through on every protected route while the
\* time is before t + 3600, and from t + 3600 on answers 401 "Token
\* expirado" without the route's logic running.
C5_TokenLifetime ==
    \A i \in issued :
        /\ i.tok.exp = i.at + 3600
        /\ \A t \in Threads :
             Presents(t, i) =>
                IF req[t].at < i.at + 3600
                THEN resp[t].by # "guard" /\ uow[t] # "none"
                ELSE /\ pc[t] = "done"
                     /\ resp[t].status = 401
                     /\ resp[t].msg = "Token expirado"
                     /\ resp[t].by = "guard"
                     /\ HandlerNotRun(t)

\* C5's case: a token is presented at the very second of its expiry, after
\* it was accepted one second earlier, and is refused.
C5_Witness ==
    \E t \in Threads, i \in issued :
        /\ Presents(t, i)
        /\ req[t].at = i.at + 3600
        /\ resp[t].msg = "Token expirado"

\* The header is none, or not of the form "Bearer <token>": it does not
\* start with "Bearer ", or nothing follows "Bearer ".
NoBearerToken(h) ==
    \/ ~h.present
    \/ h.parts = << >>
    \/ Len(h.parts) < 2
    \/ h.parts[1] # W("Bearer")
    \/ h.parts[2] # SP
    \/ h.parts = <<W("Bearer"), SP>>

\* C6: on a protected route a request with no Authorization header, or with
\* one that is not of the form "Bearer <token>" (a header "Bearer " with no
\* token after it included), is answered 401 with "Token ausente".
C6_MissingTokenMessage ==
    \A t \in Threads :
        (pc[t] = "done" /\ req[t].route \in Protected /\ NoBearerToken(req[t].header))
        => resp[t].status = 401 /\ resp[t].msg = "Token ausente"


\* the number of distinct titles of a scraped table
DistinctTitles(df) == Cardinality({ df[i].title : i \in 1..Len(df) })

\* Thread t has answered 200 to a scrape trigger that followed, with no
\* other run between them, a run that started on an empty books table,
\* scraped the same table and was answered 200 too.
SecondRun(t) ==
    /\ pc[t] = "done"
    /\ req[t].route = "trigger"
    /\ resp[t].status = 200
    /\ lastRun.status = 200
    /\ lastRun.before = 0
    /\ lastRun.df = loc[t].df

\* C2 as stated: two runs in succession over the same table of N rows, the
\* first from an empty books table, leave N rows after the first and N after
\* the second; total_processed is N on both, newly added N and then 0.
C2_AsStated ==
    \A t \in Threads :
        SecondRun(t) =>
            LET N == Len(loc[t].df)
            IN /\ lastRun.after = N
               /\ lastRun.inserted = N
               /\ lastRun.total = N
               /\ Len(books) = N
               /\ resp[t].inserted = 0
               /\ resp[t].total = N

\* C2 amended: with D the number of distinct titles among the N rows, the
\* books table holds D rows after the first run and D after the second;
\* total_processed is N on both, newly added D and then 0.
C2_DedupByTitle ==
    \A t \in Threads :
        SecondRun(t) =>
            LET N == Len(loc[t].df)
                D == DistinctTitles(loc[t].df)
            IN /\ lastRun.after = D
               /\ lastRun.inserted = D
               /\ lastRun.total = N
               /\ Len(books) = D
               /\ resp[t].inserted = 0
               /\ resp[t].total = N

\* C2's case: the second of two runs over a table of two rows that carry
\* the same title.
C2_Witness ==
    \E t \in Threads :
        /\ SecondRun(t)
        /\ Len(loc[t].df) = 2
        /\ DistinctTitles(loc[t].df) = 1

TrigPcs == {"trig_crawl", "trig_row", "trig_commit"}

\* C7: a scrape-trigger call that ends in an exception, during the crawl,
\* the staging or the commit, is answered 500 with the error text by a step
\* that has rolled the unit of work back: the books table is what it was
\* before the step, hence before the call staged anything, nothing stays
\* staged, and the unit of work is closed.  A call ends in no other way than
\* this, the 200 of a commit or the 400 of an empty crawl.
C7_RollbackOnFailure ==
    [][\A t \in Threads :
         (pc[t] \in TrigPcs /\ pc'[t] = "done") =>
            \/ resp'[t].status = 200 /\ pc[t] = "trig_commit"
            \/ resp'[t].status = 400 /\ pc[t] = "trig_crawl" /\ books' = books
            \/ /\ resp'[t].status = 500
               /\ resp'[t].msg \in {"RequestException", "OperationalError"}
               /\ books' = books
               /\ loc'[t].staged = << >>
               /\ uow'[t] = "closed"]_vars

\* C7's case: a call that had staged two new books failed and was answered
\* 500, and the books table is as empty as the call found it.
C7_Witness ==
    \E t \in Threads :
        /\ pc[t] = "done"
        /\ req[t].route = "trigger"
        /\ resp[t].status = 500
        /\ loc[t].inserted = 2
        /\ loc[t].before = 0
        /\ books = << >>

\* the route of the request the step of thread t belongs to
StepRoute(t) == IF pc[t] = "idle" THEN req'[t].route ELSE req[t].route

\* C9: no step updates or deletes a user or book row: each table is a
\* prefix of what it is after the step.  Book rows are added by the
\* scrape-trigger call alone and user rows by register alone; the steps of
\* login and of the four read routes leave both tables as they are.
C9_RowsOnlyAdded ==
    [][/\ IsPrefix(users, users')
       /\ IsPrefix(books, books')
       /\ books' # books => \E t \in Threads : pc'[t] # pc[t] /\ StepRoute(t) = "trigger"
       /\ users' # users => \E t \in Threads : pc'[t] # pc[t] /\ StepRoute(t) = "register"
       /\ \A t \in Threads :
            (pc'[t] # pc[t] /\ StepRoute(t) \in ReadRoutes \cup {"login"})
            => users' = users /\ books' = books]_vars

\* C9's case: a read route has answered 200 from a books table with rows,
\* next to a users table with a row.
C9_Witness ==
    \E t \in Threads :
        /\ pc[t] = "done"
        /\ req[t].route \in ReadRoutes
        /\ resp[t].status = 200
        /\ books # << >>
        /\ users # << >>


\* the rows of the users table with username u
RowsOf(tbl, u) == { i \in 1..Len(tbl) : tbl[i].username = u }

\* C3: the users table never holds two rows with one username, however the
\* register calls overlap; no step changes or removes a row; and a register
\* call that looks up a username that has a row is answered 400 by a step
\* that leaves the table as it is.
C3_UniqueUsername ==
    [][/\ \A i, j \in 1..Len(users') : users'[i].username = users'[j].username => i = j
       /\ IsPrefix(users, users')
       /\ \A t \in Threads :
            (/\ pc[t] = "reg_lookup"
             /\ pc'[t] # "reg_lookup"
             /\ RowsOf(users, req[t].username) # {})
            => /\ pc'[t] = "done"
               /\ resp'[t].status = 400
               /\ resp'[t].msg = "User already exists"
               /\ users' = users]_vars

\* C3's case: two register calls for one username overlapped; one created
\* the row, the other, sent with another password, was refused by the
\* storage, and the row is the first call's.
C3_Witness ==
    \E t, o \in Threads :
        /\ pc[t] = "done" /\ req[t].route = "register" /\ resp[t].status = 201
        /\ pc[o] = "done" /\ req[o].route = "register" /\ resp[o].status = 500
        /\ req[o].username = req[t].username
        /\ req[o].password # req[t].password
        /\ Cardinality(RowsOf(users, req[t].username)) = 1

\* C4: once register(u, p) has been answered 201, the check of every login
\* for u answers 200 with an access token when the password is p and 401
\* when it is another one.
C4_LoginAfterRegister ==
    [][\A t \in Threads :
         (pc[t] = "login_check" /\ pc'[t] # "login_check") =>
            \A c \in created :
                c[1] = req[t].username =>
                    IF c[2] = req[t].password
                    THEN /\ resp'[t].status = 200
                         /\ resp'[t].token # NoTok
                         /\ resp'[t].token.username = c[1]
                    ELSE resp'[t].status = 401]_vars

\* C4's case: with two users registered, a login with the password of the
\* other user was answered 401 while a login with the right one got 200.
C4_Witness ==
    \E t, o \in Threads :
        /\ Len(users) = 2
        /\ pc[t] = "done" /\ req[t].route = "login" /\ resp[t].status = 200
        /\ pc[o] = "done" /\ req[o].route = "login" /\ resp[o].status = 401
        /\ req[o].username = req[t].username
        /\ <<req[t].username, req[t].password>> \in created

\* C10: the only de-duplication of the scrape trigger is its lookup before
\* the insert.  A row is staged exactly when the lookup finds its title
\* neither in the committed table nor among the rows the call has staged,
\* and the commit appends every staged row, whatever the table holds by
\* then: it is never refused for a title that is already there.
C10_LookupIsTheOnlyDedup ==
    [][\A t \in Threads :
         /\ (pc[t] = "trig_row" /\ loc'[t].i = loc[t].i + 1)
            => LET title == loc[t].df[loc[t].i].title
                   absent == /\ \A i \in 1..Len(books) : books[i].title # title
                             /\ \A k \in 1..Len(loc[t].staged) :
                                    loc[t].staged[k].title # title
               IN IF absent
                  THEN /\ Len(loc'[t].staged) = Len(loc[t].staged) + 1
                       /\ loc'[t].staged[Len(loc'[t].staged)].title = title
                  ELSE loc'[t].staged = loc[t].staged
         /\ (pc[t] = "trig_commit" /\ pc'[t] = "done"
             /\ resp'[t].msg # "OperationalError")
            => /\ resp'[t].status = 200
               /\ Len(books') = Len(books) + Len(loc[t].staged)
               /\ \A k \in 1..Len(loc[t].staged) :
                      books'[Len(books) + k].title = loc[t].staged[k].title]_vars

\* C10's case: two scrape-trigger calls were both answered 200, each with a
\* newly added book, and two rows of the books table share a title.
C10_Witness ==
    /\ \A t \in Threads :
          /\ pc[t] = "done"
          /\ req[t].route = "trigger"
          /\ resp[t].status = 200
          /\ resp[t].inserted >= 1
    /\ \E i, j \in 1..Len(books) : i # j /\ books[i].title = books[j].title

\* the listing pages of the crawled category, in next-link order
ChainUrls == [p \in 1..Cardinality(DOMAIN site.pages) |-> U(site.cats[1].url.dir, p)]

\* the product urls of the cards of the pages, page after page
ChainProducts ==
    Flatten([p \in 1..Len(ChainUrls) |->
               [k \in 1..Len(site.pages[ChainUrls[p]].cards) |->
                  urljoin(ChainUrls[p], site.pages[ChainUrls[p]].cards[k].href)]])

\* C8: on a finite chain of listing pages crawl_category terminates, and
\* when it has returned it has fetched each page of the chain once, in
\* next-link order, and its result is the concatenation of the pages'
\* entries in page order.
C8_CrawlTerminatesInOrder ==
    /\ <>(cpc = "returned")
    /\ [](cpc = "returned" =>
            /\ fetched = ChainUrls
            /\ [i \in 1..Len(all_rows) |-> all_rows[i].product_url] = ChainProducts
            /\ Len(all_rows) = Len(ChainProducts))

\* C8's case: three pages of 20 books each have given 60 entries.
C8_Witness ==
    /\ cpc = "returned"
    /\ Len(fetched) = 3
    /\ \A u \in DOMAIN site.pages : Len(site.pages[u].cards) = 20
    /\ Len(all_rows) = 60

\* the name the listing page at u gives for itself: its breadcrumb, or else
\* the slug of its url
Detected(u) == extract_category_from_listing(get_soup(site, u), u)

\* C11: when a pass of crawl_category parses a listing page whose own
\* detection gives a name that differs from the name the sidebar supplied,
\* every entry the pass adds for that page carries the detected name.
C11_EntriesCarryDetectedName ==
    [][(cpc = "loop" /\ fetched' = Append(fetched, url)
        /\ Detected(url) # None /\ Detected(url)[1] # name)
       => \A i \in (Len(all_rows) + 1)..Len(all_rows') :
             all_rows'[i].category = Detected(url)[1]]_vars

\* the positions of a thread inside the body of a route, after its
\* db = SessionLocal()
InHandler == {"trig_crawl", "trig_row", "trig_commit", "reg_lookup", "reg_commit",
              "login_check", "read_query"}

\* C12: a route's body runs with a unit of work of its own open, opened by
\* the request itself on a thread that carried none in; every step that
\* ends the body (a 200/201, a 400/401/404 or a 500 after an exception)
\* closes it, so a thread that has answered or is free holds no open unit
\* of work; and no step of one request touches the unit of work of
\* another thread.
C12_UnitOfWorkReleased ==
    [][\A t \in Threads :
         /\ pc'[t] \in {"idle", "done"} => uow'[t] # "open"
         /\ pc'[t] \in InHandler => uow'[t] = "open"
         /\ (pc[t] = "idle" /\ pc'[t] # "idle") => uow[t] = "none"
         /\ (pc[t] \in InHandler /\ pc'[t] = "done")
              => uow[t] = "open" /\ uow'[t] = "closed"
         /\ pc'[t] = pc[t] => uow'[t] = uow[t]]_vars

\* C12's case: a read route has ended by an exception with its unit of
\* work closed, while the other thread is inside a route with its own open.
C12_Witness ==
    \E t, o \in Threads :
        /\ pc[t] = "done"
        /\ req[t].route \in ReadRoutes
        /\ resp[t].status = 500
        /\ uow[t] = "closed"
        /\ pc[o] \in InHandler
        /\ uow[o] = "open"

====
